---- MODULE Spec2Model ----
(***************************************************************************)
(* Smart Money Marker: the wallet record model (database/models.py), the   *)
(* MongoDB storage gateway (database/mongo_client.py) and the scrape       *)
(* pipeline (sol_wallets_scraper.py).                                      *)
(*                                                                         *)
(* A Python dict is a function from the set of its keys to its values; a   *)
(* value is None (the empty tuple) or V(x) (a one-element tuple), so that  *)
(* "key absent", "key present with None" and "key present with a value"    *)
(* stay three different things, as they are in the code.                   *)
(***************************************************************************)
EXTENDS Integers, Sequences, FiniteSets, Bags, TLC

\* ------------------------------------------------------------------ bounds
MaxBatch == 2
MaxClock == 2
MaxDocs == 4

Procs == {"p1", "p2"}

\* --------------------------------------------------------- Python dicts
None == <<>>
V(x) == <<x>>

EmptyDict == [f \in {} |-> None]

Has(d, k) == k \in DOMAIN d

Get(d, k, default) == IF Has(d, k) THEN d[k] ELSE default

Put(d, k, v) == [f \in DOMAIN d \cup {k} |-> IF f = k THEN v ELSE d[f]]

\* The dict d cut down to the keys in keys.
Restrict(d, keys) == [k \in keys |-> d[k]]

\* The wallets the concurrent clients work with.
Wallets ==
    { [wallet_address |-> V("A"), winrate_7d |-> V(1), realized_profit |-> V(1)],
      [wallet_address |-> V("A"), winrate_7d |-> V(0)],
      [wallet_address |-> V("B")],
      [wallet_address |-> V(""), winrate_7d |-> V(1)],
      [winrate_7d |-> V(1)] }

\* Every shape of raw wallet, for the record model's functions: each key
\* absent, present with None or present with a value.
AllWallets ==
    Wallets \cup
    { Restrict(d, keys) :
        d \in [wallet_address : {None, V(""), V("A"), V("B")},
               winrate_7d : {None, V(-1), V(0), V(1)}],
        keys \in SUBSET {"wallet_address", "winrate_7d"} }

MinWinrates == {-1, 0, 1}

RECURSIVE SeqsUpTo(_, _)
SeqsUpTo(S, n) ==
    IF n = 0 THEN {<<>>}
    ELSE LET shorter == SeqsUpTo(S, n - 1)
         IN  shorter \cup {Append(s, x) : s \in {t \in shorter : Len(t) = n - 1}, x \in S}

\* The lists fetch_trending_wallets may return.
Ranks == SeqsUpTo(Wallets, MaxBatch)

\* The lists the record model's functions are called with.
AllLists == SeqsUpTo(AllWallets, MaxBatch)

\* ------------------------------------------------------ database/models.py
\* Python truthiness of a dict value: None and "" are falsy.
Truthy(v) == v # None /\ v # V("")

\* Faulty variant: only the key is checked, not its value.
validate_wallet_data_KeyOnly(wallet_data) == Has(wallet_data, "wallet_address")

validate_wallet_data(wallet_data) ==
    Has(wallet_data, "wallet_address") /\ Truthy(wallet_data["wallet_address"])

\* Faulty variant: the stamp counts the time left, not the time of day.
enrich_wallet_data_StampCountsDown(raw_wallet_data, utcnow) ==
    LET enriched_data == Put(raw_wallet_data, "scrapeTimestamp", V(MaxClock - utcnow))
    IN  IF validate_wallet_data(enriched_data) THEN enriched_data ELSE None

\* enrich_wallet_data: the enriched copy, or None for an invalid wallet.
enrich_wallet_data(raw_wallet_data, utcnow) ==
    LET enriched_data == Put(raw_wallet_data, "scrapeTimestamp", V(utcnow))
    IN  IF validate_wallet_data(enriched_data) THEN enriched_data ELSE None

\* The test of filter_by_winrate's loop body.
PassesWinrate(wallet, min_winrate_) ==
    LET winrate == Get(wallet, "winrate_7d", V(0))
    IN  winrate # None /\ winrate[1] >= min_winrate_

filter_by_winrate(wallets_, min_winrate_) ==
    SelectSeq(wallets_, LAMBDA w : PassesWinrate(w, min_winrate_))

\* -------------------------------------------------- sol_wallets_scraper.py
RECURSIVE enrich_wallets(_, _)
enrich_wallets(wallets_, utcnow) ==
    IF wallets_ = <<>> THEN <<>>
    ELSE LET enriched_wallet == enrich_wallet_data(Head(wallets_), utcnow)
             rest == enrich_wallets(Tail(wallets_), utcnow)
         IN  IF enriched_wallet # None THEN <<enriched_wallet>> \o rest ELSE rest

\* ------------------------------------------------ database/mongo_client.py
VARIABLES
    store,        \* the collection: a bag of documents
    now,          \* datetime.utcnow()
    min_winrate,  \* config['scraper']['min_winrate'] of each client that is a scraper
    pc,           \* where each client is
    kind,         \* the operation each client runs: upsert, batch or run
    todo,         \* how many wallets of the caller's list are still to come
    stages,       \* the stages run_scrape has entered
    raw,          \* run_scrape's raw_wallets
    filtered,     \* run_scrape's filtered_wallets
    wallets,      \* run_scrape's enriched wallets still to store
    cur,          \* the wallet whose replace_one is in flight
    n,            \* the length of the list handed to upsert_wallets_batch
    stats,        \* upsert_wallets_batch's stats
    outcome,      \* what happened to the last wallet a client processed
    result,       \* the boolean upsert_wallet / run_scrape returned
    last,         \* the most recent successful replace_one: the wallet, the client,
                  \* the document replaced, and whether the operation still running
                  \* wrote the wallet the upsert before it wrote
    wrote,        \* per client and wallet_address, the wallet it last upserted
    arg,          \* the argument of the last call of a record-model function
    ret,          \* and what it returned
    req,          \* the read a caller has made: a gateway call or an HTTP request
    resp          \* and what it got, with the storage reads made for it

vars == <<store, now, min_winrate, pc, kind, todo, stages, raw, filtered, wallets, cur, n, stats, outcome,
          result, last, wrote, arg, ret, req, resp>>

ZeroStats == [inserted |-> 0, updated |-> 0, errors |-> 0]

\* The filter {"wallet_address": key}: the documents it matches (a None key
\* also matches a missing field).
Matching(st, key) ==
    {d \in BagToSet(st) :
        \/ Has(d, "wallet_address") /\ d["wallet_address"] = key
        \/ ~Has(d, "wallet_address") /\ key = None}

\* Faulty variant: the index is not unique.
UniqueIndexAllows_NotUnique(st, doc) == TRUE

\* create_index("wallet_address", unique=True): an insert may not repeat a key.
UniqueIndexAllows(st, doc) == Matching(st, Get(doc, "wallet_address", None)) = {}

InsertDoc(st, doc) == st (+) SetToBag({doc})

\* Faulty variant: an update that sets the wallet's keys and keeps the others.
ReplaceDoc_Merge(st, old, doc) ==
    InsertDoc(st (-) SetToBag({old}),
              [k \in DOMAIN old \cup DOMAIN doc |-> IF Has(doc, k) THEN doc[k] ELSE old[k]])

\* Faulty variant: the matched document stays and the wallet is added.
ReplaceDoc_KeepsOld(st, old, doc) == InsertDoc(st, doc)

\* Faulty variant: the matching document is removed and nothing is put back.
ReplaceDoc_DeleteOnly(st, old, doc) == st (-) SetToBag({old})

\* replace_one on a match: the whole document old is replaced by doc.
ReplaceDoc(st, old, doc) == InsertDoc(st (-) SetToBag({old}), doc)

\* The one document replace_one works on.
FirstMatch(st, key) == CHOOSE d \in Matching(st, key) : TRUE

\* "if 'scrapeTimestamp' not in wallet: wallet['scrapeTimestamp'] = utcnow()"
Stamp(wallet, utcnow) ==
    IF Has(wallet, "scrapeTimestamp") THEN wallet ELSE Put(wallet, "scrapeTimestamp", V(utcnow))

\* Faulty variant: the test of result.upserted_id is inverted.
Count_Swapped(st, out) ==
    CASE out = "inserted" -> [st EXCEPT !.updated = @ + 1]
      [] out = "updated"  -> [st EXCEPT !.inserted = @ + 1]
      [] OTHER            -> [st EXCEPT !.errors = @ + 1]

\* Faulty variant: a replacement is not counted.
Count_DropsUpdated(st, out) ==
    CASE out = "inserted" -> [st EXCEPT !.inserted = @ + 1]
      [] out = "updated"  -> st
      [] OTHER            -> [st EXCEPT !.errors = @ + 1]

\* The counter a wallet's outcome increments.
Count(st, out) ==
    CASE out = "inserted" -> [st EXCEPT !.inserted = @ + 1]
      [] out = "updated"  -> [st EXCEPT !.updated = @ + 1]
      [] OTHER            -> [st EXCEPT !.errors = @ + 1]

\* Faulty variant: upsert_wallet returns whether a document was inserted.
UpsertResult_Inserted(out) == out = "inserted"

\* What upsert_wallet returns.
UpsertResult(out) == out # "error"

\* Faulty variant: the try/except is around the loop, so a failure ends it.
LoopContinues_AbortOnError(out) == out # "error"

\* The try/except of upsert_wallets_batch is inside the for loop: whatever
\* happened to a wallet, the loop goes on with the next one.
LoopContinues(out) == TRUE

\* Faulty variant: an empty stage result always ends the run in success.
EmptyStageReturns_AlwaysTrue(stage) == TRUE

\* Faulty variant: an empty stage result always ends the run in failure.
EmptyStageReturns_AlwaysFalse(stage) == FALSE

\* Faulty variant: only an empty fetch is a failure.
EmptyStageReturns_OnlyFetchFails(stage) == stage # "fetch"

\* What run_scrape returns when a stage returned an empty list: False after
\* fetch, True after filter, False after enrich.
EmptyStageReturns(stage) == stage = "filter"

\* Faulty variant: the run succeeds when some wallet was stored.
RunResult_SomeStored(storage_stats) == storage_stats.inserted + storage_stats.updated > 0

\* What run_scrape returns after the store stage.
RunResult(storage_stats) == storage_stats.errors = 0

\* ------------------------- mongo_client.py: the writes of a single writer
\* collection.replace_one({"wallet_address": ...}, wallet, upsert=True) when
\* no other client writes: the filter needs the key (KeyError), the driver
\* raises when fate says so, a matching document is replaced, else wallet is
\* inserted. The collection afterwards, and what happened.
replace_one(st, wallet, fate) ==
    IF ~Has(wallet, "wallet_address") \/ fate = "raise"
    THEN [store |-> st, out |-> "error"]
    ELSE IF Matching(st, wallet["wallet_address"]) # {}
    THEN [store |-> ReplaceDoc(st, FirstMatch(st, wallet["wallet_address"]), wallet),
          out |-> "updated"]
    ELSE [store |-> InsertDoc(st, wallet), out |-> "inserted"]

\* upsert_wallet as a function of the collection, the clock and the driver's
\* fate: the collection afterwards and the returned bool.
upsert_wallet(st, wallet_data, utcnow, fate) ==
    LET done == replace_one(st, Stamp(wallet_data, utcnow), fate)
    IN  [store |-> done.store, result |-> UpsertResult(done.out)]

\* Faulty variant: the loop gives up at the first wallet that fails.
RECURSIVE BatchLoop_StopsAtError(_, _, _, _, _)
BatchLoop_StopsAtError(st, stats_, wallets_, utcnow, fates) ==
    IF wallets_ = <<>> THEN [store |-> st, stats |-> stats_]
    ELSE LET done == replace_one(st, Stamp(Head(wallets_), utcnow), Head(fates))
         IN  IF done.out = "error"
             THEN [store |-> done.store, stats |-> Count(stats_, done.out)]
             ELSE BatchLoop_StopsAtError(done.store, Count(stats_, done.out),
                                         Tail(wallets_), utcnow, Tail(fates))

\* The for loop of upsert_wallets_batch from the collection st and the
\* counters stats_ on: each wallet is stamped, written and counted.
RECURSIVE BatchLoop(_, _, _, _, _)
BatchLoop(st, stats_, wallets_, utcnow, fates) ==
    IF wallets_ = <<>> THEN [store |-> st, stats |-> stats_]
    ELSE LET done == replace_one(st, Stamp(Head(wallets_), utcnow), Head(fates))
             counted == Count(stats_, done.out)
         IN  IF LoopContinues(done.out)
             THEN BatchLoop(done.store, counted, Tail(wallets_), utcnow, Tail(fates))
             ELSE [store |-> done.store, stats |-> counted]

\* Faulty variant: whether a wallet was inserted is decided against the
\* collection as it was when the call began.
upsert_wallets_batch_CountsAgainstSnapshot(st, wallets_, utcnow, fates) ==
    LET done == BatchLoop(st, ZeroStats, wallets_, utcnow, fates)
        written == done.stats.inserted + done.stats.updated
        fresh == Cardinality({i \in 1..Len(wallets_) :
                    /\ Has(wallets_[i], "wallet_address")
                    /\ fates[i] # "raise"
                    /\ Matching(st, wallets_[i]["wallet_address"]) = {}})
    IN  [store |-> done.store,
         stats |-> [inserted |-> fresh, updated |-> written - fresh,
                    errors |-> done.stats.errors]]

\* upsert_wallets_batch as a function of the collection, the clock and the
\* driver's fate at each wallet: the collection afterwards and the counters.
upsert_wallets_batch(st, wallets_, utcnow, fates) ==
    BatchLoop(st, ZeroStats, wallets_, utcnow, fates)

\* upsert_wallet called on each wallet of the list in turn: the collection
\* afterwards and the number of calls that returned False.
RECURSIVE UpsertEach(_, _, _, _)
UpsertEach(st, wallets_, utcnow, fates) ==
    IF wallets_ = <<>> THEN [store |-> st, failed |-> 0]
    ELSE LET one == upsert_wallet(st, Head(wallets_), utcnow, Head(fates))
             rest == UpsertEach(one.store, Tail(wallets_), utcnow, Tail(fates))
         IN  [store |-> rest.store, failed |-> rest.failed + (IF one.result THEN 0 ELSE 1)]

\* ------------------------------------------- mongo_client.py: the reads
\* Python truthiness of an optional int: None and 0 are falsy.
TruthyInt(v) == v # None /\ v # V(0)

\* Python truthiness of an optional datetime: only None is falsy.
TruthyDate(v) == v # None

\* Faulty variant: "if min_winrate:", which drops a threshold of 0.
WinrateGiven_Truthy(min_winrate_) == TruthyInt(min_winrate_)

\* "if min_winrate is not None"
WinrateGiven(min_winrate_) == min_winrate_ # None

\* The query dict get_wallets builds: per field, the operators to satisfy.
BuildQuery(min_winrate_, start_date, end_date) ==
    LET q1 == IF WinrateGiven(min_winrate_)
              THEN Put(EmptyDict, "winrate_7d", Put(EmptyDict, "$gte", min_winrate_))
              ELSE EmptyDict
        d1 == IF TruthyDate(start_date) THEN Put(EmptyDict, "$gte", start_date) ELSE EmptyDict
        date_filter == IF TruthyDate(end_date) THEN Put(d1, "$lte", end_date) ELSE d1
    IN  IF TruthyDate(start_date) \/ TruthyDate(end_date)
        THEN Put(q1, "scrapeTimestamp", date_filter)
        ELSE q1

\* Faulty variant: $gte and $lte ask for equality.
Compare_Equal(op, x, y) == x = y

\* A comparison operator of the query language on two numbers.
Compare(op, x, y) == IF op = "$gte" THEN x >= y ELSE x <= y

\* find's match: every field of the query is in the document, is not null,
\* and satisfies each of its operators (a missing or null field matches no
\* $gte / $lte against a number or a date).
MatchesQuery(doc, query) ==
    \A field \in DOMAIN query :
        /\ Has(doc, field)
        /\ doc[field] # None
        /\ \A op \in DOMAIN query[field] : Compare(op, doc[field][1], query[field][op][1])

\* The key sort('scrapeTimestamp', ...) orders a document by: a missing or
\* null field sorts before every date.
SortKey(doc) ==
    IF Has(doc, "scrapeTimestamp") /\ doc["scrapeTimestamp"] # None
    THEN doc["scrapeTimestamp"][1] ELSE -1

\* Faulty variant: the sort is ascending.
InSortOrder_Ascending(first, second) == SortKey(first) <= SortKey(second)

\* sort('scrapeTimestamp', -1): first may come before second.
InSortOrder(first, second) == SortKey(first) >= SortKey(second)

\* The orders in which the cursor may deliver the documents docs: any order
\* that is descending in scrapeTimestamp (equal keys come in any order).
Sorted(docs) ==
    {c \in [1..Cardinality(docs) -> docs] :
        /\ \A i, j \in DOMAIN c : i # j => c[i] # c[j]
        /\ \A i, j \in DOMAIN c : i < j => InSortOrder(c[i], c[j])}

\* "if limit: cursor = cursor.limit(limit)" on a limit that is None or >= 0.
Limited(cursor, limit) ==
    IF TruthyInt(limit) /\ limit[1] < Len(cursor) THEN SubSeq(cursor, 1, limit[1]) ELSE cursor

\* The lists get_wallets may return when the read succeeds.
get_wallets(st, min_winrate_, limit, start_date, end_date) ==
    LET query == BuildQuery(min_winrate_, start_date, end_date)
    IN  {Limited(cursor, limit) : cursor \in Sorted({d \in BagToSet(st) : MatchesQuery(d, query)})}

\* What find_one({"wallet_address": ...}) may return: a matching document, or
\* None when there is none.
find_one(st, wallet_address) ==
    IF Matching(st, wallet_address) = {} THEN {None} ELSE Matching(st, wallet_address)

\* The sum of winrate_7d over the documents docs.
RECURSIVE SumWinrate(_)
SumWinrate(docs) ==
    IF docs = {} THEN 0
    ELSE LET d == CHOOSE x \in docs : TRUE
         IN  d["winrate_7d"][1] + SumWinrate(docs \ {d})

\* "round(avg_winrate, 3) if avg_winrate else 0" on the $avg of winrate_7d,
\* which ignores the documents without a number there and is null when there
\* is none; in thousandths (no average of fewer than 16 numbers is half-way
\* between two thousandths).
average_winrate(st) ==
    LET rated == {d \in BagToSet(st) : Has(d, "winrate_7d") /\ d["winrate_7d"] # None}
        count == Cardinality(rated)
    IN  IF count = 0 THEN 0 ELSE (2000 * SumWinrate(rated) + count) \div (2 * count)

\* What get_stats returns when its three reads succeed: the dict of the
\* totals, or {} when latest_doc has no scrapeTimestamp key (KeyError).
get_stats(st) ==
    LET docs == BagToSet(st)
        latest_doc == IF docs = {} THEN None
                      ELSE CHOOSE d \in docs : \A e \in docs : InSortOrder(d, e)
        latest_scrape == IF latest_doc = None THEN None ELSE latest_doc["scrapeTimestamp"]
    IN  IF latest_doc # None /\ ~Has(latest_doc, "scrapeTimestamp") THEN EmptyDict
        ELSE [total_wallets |-> BagCardinality(st),
              average_winrate |-> average_winrate(st),
              latest_scrape |-> IF latest_scrape # None
                                THEN V(ToString(latest_scrape[1])) ELSE None]

\* What get_stats returns when a read raises: "except Exception: return {}".
get_stats_failed == EmptyDict

\* ------------------------------------------------------------- server.py
\* Query(..., ge=1, le=1000) on limit.
LimitMin == 1
LimitMax == 1000

\* Faulty variant: limit is only checked against its lower bound.
LimitAccepted_NoUpperBound(limit) == limit = None \/ limit[1] >= LimitMin

\* The request validation of GET /wallets: a limit, when given, is within
\* [1, 1000]; otherwise the framework answers 422 without calling the handler.
LimitAccepted(limit) == limit = None \/ (limit[1] >= LimitMin /\ limit[1] <= LimitMax)

\* datetime.isoformat(), and the strings datetime.fromisoformat accepts.
isoformat(t) == ToString(t)

IsIsoDate(text) == \E t \in 0..MaxClock : isoformat(t) = text

fromisoformat(text) == CHOOSE t \in 0..MaxClock : isoformat(t) = text

\* A date parameter of GET /wallets: None when absent or empty, else the
\* parsed date.
ParsedDate(param) == IF Truthy(param) THEN V(fromisoformat(param[1])) ELSE None

\* A date parameter that makes the handler raise HTTPException(400).
BadDate(param) == Truthy(param) /\ ~IsIsoDate(param[1])

\* transform_for_api on the keys the wallets here have (the other keys are
\* read with their defaults in the same way); on None the except branch
\* returns the argument.
transform_for_api(wallet_data) ==
    IF wallet_data = None THEN None
    ELSE LET stamp == Get(wallet_data, "scrapeTimestamp", None)
         IN  [wallet_address |-> Get(wallet_data, "wallet_address", None),
              realized_profit |-> Get(wallet_data, "realized_profit", V(0)),
              winrate_7d |-> Get(wallet_data, "winrate_7d", V(0)),
              scrapeTimestamp |-> IF stamp # None THEN V(isoformat(stamp[1])) ELSE stamp]

\* Faulty variant: the handler does not test what get_wallet returned.
NotFound_Never(wallet) == FALSE

\* "if not wallet" in GET /wallets/{wallet_address}.
NotFound(wallet) == wallet = None

\* No record-model function has been called yet.
NoCall == [fn |-> "none", wallets |-> <<>>, min_winrate |-> 0, utcnow |-> 0]

\* No read has been made yet.
NoReq == [op |-> "none", min_winrate |-> None, limit |-> None, start_date |-> None,
          end_date |-> None, wallet_address |-> None]

NoResp == [status |-> 0, wallets |-> <<>>, failed |-> FALSE, reads |-> 0, body |-> EmptyDict]

\* Nothing has been upserted yet.
NoLast == [rec |-> None, by |-> "p1", replaced |-> None, repeat |-> FALSE]

\* The documents upserts can have stored: a wallet with a wallet_address key,
\* stamped at some time.
Docs == {Stamp(w, t) : w \in {x \in Wallets : Has(x, "wallet_address")}, t \in 0..MaxClock}

\* The collections upserts can have built: at most one document per address.
Stores ==
    {SetToBag(S) : S \in {T \in SUBSET Docs :
                            \A d, e \in T : d["wallet_address"] = e["wallet_address"] => d = e}}

\* No client has been called and nothing has been read.
InitClients ==
    /\ min_winrate = [p \in Procs |-> 0]
    /\ pc = [p \in Procs |-> "idle"]
    /\ kind = [p \in Procs |-> "none"]
    /\ todo = [p \in Procs |-> 0]
    /\ stages = [p \in Procs |-> <<>>]
    /\ raw = [p \in Procs |-> <<>>]
    /\ filtered = [p \in Procs |-> <<>>]
    /\ wallets = [p \in Procs |-> <<>>]
    /\ cur = [p \in Procs |-> None]
    /\ n = [p \in Procs |-> 0]
    /\ stats = [p \in Procs |-> ZeroStats]
    /\ outcome = [p \in Procs |-> "none"]
    /\ result = [p \in Procs |-> FALSE]
    /\ last = NoLast
    /\ wrote = [p \in Procs |-> EmptyDict]
    /\ arg = NoCall
    /\ ret = <<>>
    /\ req = NoReq
    /\ resp = NoResp

Init ==
    /\ store = EmptyBag
    /\ now = 0
    /\ InitClients

\* The readers start on a collection that upserts have built.
InitQuery ==
    /\ store \in Stores
    /\ now = MaxClock
    /\ InitClients

\* The wallets a client has not yet taken up.
Left(p) == IF kind[p] = "run" THEN Len(wallets[p]) ELSE todo[p]

\* The wallet doc of client p is done with outcome out, the collection now
\* being st and left wallets still to come: count it, and return when the
\* list is exhausted.
Complete(p, out, st, doc, left) ==
    LET ns == IF kind[p] = "upsert" THEN stats[p] ELSE Count(stats[p], out)
        more == left > 0 /\ LoopContinues(out)
        old == IF out = "updated" THEN FirstMatch(store, doc["wallet_address"]) ELSE None
    IN  /\ store' = st
        /\ outcome' = [outcome EXCEPT ![p] = out]
        /\ stats' = [stats EXCEPT ![p] = ns]
        /\ cur' = [cur EXCEPT ![p] = None]
        /\ last' = IF out = "error" THEN [last EXCEPT !.repeat = FALSE]
                   ELSE [rec |-> doc, by |-> p, replaced |-> old, repeat |-> doc = last.rec]
        /\ wrote' = IF out = "error" THEN wrote
                    ELSE [wrote EXCEPT ![p] = Put(@, doc["wallet_address"], doc)]
        /\ pc' = [pc EXCEPT ![p] = IF more THEN "loop" ELSE "done"]
        /\ result' = [result EXCEPT ![p] =
                        CASE kind[p] = "upsert" -> UpsertResult(out)
                          [] kind[p] = "run" /\ ~more -> RunResult(ns)
                          [] OTHER -> FALSE]
        /\ UNCHANGED <<now, min_winrate, kind, stages, raw, filtered, n, arg, ret, req, resp>>

\* upsert_wallet(wallet_data) is called.
UpsertWallet(p) ==
    /\ pc[p] = "idle"
    /\ kind' = [kind EXCEPT ![p] = "upsert"]
    /\ todo' = [todo EXCEPT ![p] = 1]
    /\ n' = [n EXCEPT ![p] = 1]
    /\ pc' = [pc EXCEPT ![p] = "loop"]
    /\ UNCHANGED <<store, now, min_winrate, stages, raw, filtered, wallets, cur, stats, outcome, result,
                   last, wrote, arg, ret, req, resp>>

\* upsert_wallets_batch(wallets) is called with a list of some length (its
\* wallets are drawn as the loop reaches them); an empty list returns at once.
UpsertWalletsBatch(p) ==
    /\ pc[p] = "idle"
    /\ \E len \in 0..MaxBatch :
        /\ todo' = [todo EXCEPT ![p] = len]
        /\ n' = [n EXCEPT ![p] = len]
        /\ pc' = [pc EXCEPT ![p] = IF len = 0 THEN "done" ELSE "loop"]
    /\ kind' = [kind EXCEPT ![p] = "batch"]
    /\ UNCHANGED <<store, now, min_winrate, stages, raw, filtered, wallets, cur, stats, outcome, result,
                   last, wrote, arg, ret, req, resp>>

\* run_scrape up to the batch loop, which touches nothing shared but the
\* clock: fetch_trending_wallets returns raw_wallets ([] for an empty reply
\* or a failed request); an empty stage result ends the run: fetch with
\* False, filter with True, enrich with False; else store_wallets hands the
\* enriched list to upsert_wallets_batch. The scraper was constructed with
\* some min_winrate in its config.
RunScrape(p) ==
    /\ pc[p] = "idle"
    /\ kind' = [kind EXCEPT ![p] = "run"]
    /\ \E raw_wallets \in Ranks, threshold \in {0, 1} :
         LET filtered_wallets == filter_by_winrate(raw_wallets, threshold)
             enriched_wallets == enrich_wallets(filtered_wallets, now)
             reached == CASE raw_wallets = <<>>      -> <<"fetch">>
                          [] filtered_wallets = <<>> -> <<"fetch", "filter">>
                          [] enriched_wallets = <<>> -> <<"fetch", "filter", "enrich">>
                          [] OTHER -> <<"fetch", "filter", "enrich", "store">>
         IN  /\ stages' = [stages EXCEPT ![p] = reached]
             /\ wallets' = [wallets EXCEPT ![p] =
                              IF Len(reached) = 4 THEN enriched_wallets ELSE <<>>]
             /\ n' = [n EXCEPT ![p] = IF Len(reached) = 4 THEN Len(enriched_wallets) ELSE 0]
             /\ pc' = [pc EXCEPT ![p] = IF Len(reached) = 4 THEN "loop" ELSE "done"]
             /\ result' = [result EXCEPT ![p] =
                             Len(reached) < 4 /\ EmptyStageReturns(reached[Len(reached)])]
             /\ min_winrate' = [min_winrate EXCEPT ![p] = threshold]
    /\ UNCHANGED <<store, now, todo, raw, filtered, cur, stats, outcome,
                   last, wrote, arg, ret, req, resp>>

\* Faulty variant: the run goes on to the next stage whatever the stage
\* returned.
StageDone_GoesOn(p, stage, got, next) ==
    /\ stages' = [stages EXCEPT ![p] = Append(@, stage)]
    /\ pc' = [pc EXCEPT ![p] = next]
    /\ result' = [result EXCEPT ![p] = FALSE]

\* The end of a stage of run_scrape that returned the list got: an empty
\* list ends the run with the stage's verdict, else the run goes on to next.
StageDone(p, stage, got, next) ==
    /\ stages' = [stages EXCEPT ![p] = Append(@, stage)]
    /\ pc' = [pc EXCEPT ![p] = IF got = <<>> THEN "done" ELSE next]
    /\ result' = [result EXCEPT ![p] = got = <<>> /\ EmptyStageReturns(stage)]

\* run_scrape step by step. Step 1: fetch_trending_wallets returns the
\* reply's rank list, or [] for an empty reply or a failed request. The
\* scraper was constructed with some min_winrate in its config.
RunFetch(p) ==
    /\ pc[p] = "idle"
    /\ kind' = [kind EXCEPT ![p] = "run"]
    /\ \E raw_wallets \in Ranks, threshold \in {0, 1} :
        /\ raw' = [raw EXCEPT ![p] = raw_wallets]
        /\ min_winrate' = [min_winrate EXCEPT ![p] = threshold]
        /\ StageDone(p, "fetch", raw_wallets, "filter")
    /\ UNCHANGED <<store, now, todo, filtered, wallets, cur, n, stats, outcome,
                   last, wrote, arg, ret, req, resp>>

\* Step 2: filter_wallets.
RunFilter(p) ==
    /\ pc[p] = "filter"
    /\ LET filtered_wallets == filter_by_winrate(raw[p], min_winrate[p])
       IN  /\ filtered' = [filtered EXCEPT ![p] = filtered_wallets]
           /\ StageDone(p, "filter", filtered_wallets, "enrich")
    /\ UNCHANGED <<store, now, min_winrate, kind, todo, raw, wallets, cur, n, stats,
                   outcome, last, wrote, arg, ret, req, resp>>

\* Step 3: enrich_wallets.
RunEnrich(p) ==
    /\ pc[p] = "enrich"
    /\ LET enriched_wallets == enrich_wallets(filtered[p], now)
       IN  /\ wallets' = [wallets EXCEPT ![p] = enriched_wallets]
           /\ StageDone(p, "enrich", enriched_wallets, "store")
    /\ UNCHANGED <<store, now, min_winrate, kind, todo, raw, filtered, cur, n, stats,
                   outcome, last, wrote, arg, ret, req, resp>>

\* Step 4: store_wallets hands the enriched wallets to upsert_wallets_batch.
RunStore(p) ==
    /\ pc[p] = "store"
    /\ stages' = [stages EXCEPT ![p] = Append(@, "store")]
    /\ n' = [n EXCEPT ![p] = Len(wallets[p])]
    /\ pc' = [pc EXCEPT ![p] = "loop"]
    /\ UNCHANGED <<store, now, min_winrate, kind, todo, raw, filtered, wallets, cur,
                   stats, outcome, result, last, wrote, arg, ret, req, resp>>

\* The dicts a caller may hand to upsert_wallet or put in its batch: a fresh
\* wallet, or the dict the previous successful call stamped in place.
CallerWallets == Wallets \cup (IF last.rec = None THEN {} ELSE {last.rec})

\* One pass of the loop body up to and including the replace_one call: the
\* wallet is stamped in place unless it has a scrapeTimestamp; a wallet
\* without the key raises KeyError, the driver may raise; a matching document
\* is replaced atomically; with no match the upsert goes on to insert.
ReplaceOne(p) ==
    /\ pc[p] = "loop"
    /\ \E w \in IF kind[p] = "run" THEN {Head(wallets[p])} ELSE CallerWallets :
        LET wallet == Stamp(w, now)
        IN  /\ IF kind[p] = "run"
               THEN wallets' = [wallets EXCEPT ![p] = Tail(@)] /\ UNCHANGED todo
               ELSE todo' = [todo EXCEPT ![p] = @ - 1] /\ UNCHANGED wallets
            /\ IF ~Has(wallet, "wallet_address")
               THEN Complete(p, "error", store, wallet, Left(p) - 1)
               ELSE \/ Complete(p, "error", store, wallet, Left(p) - 1)
                    \/ /\ Matching(store, wallet["wallet_address"]) # {}
                       /\ Complete(p, "updated",
                                   ReplaceDoc(store, FirstMatch(store, wallet["wallet_address"]), wallet),
                                   wallet, Left(p) - 1)
                    \/ /\ Matching(store, wallet["wallet_address"]) = {}
                       /\ cur' = [cur EXCEPT ![p] = wallet]
                       /\ pc' = [pc EXCEPT ![p] = "insert"]
                       /\ UNCHANGED <<store, now, min_winrate, kind, stages, raw, filtered, n, stats, outcome,
                                      result, last, wrote, arg, ret, req, resp>>

\* The insert of an upsert that matched nothing. If another client inserted
\* the key meanwhile, the unique index rejects the insert: the server retries
\* the upsert as a replacement, or the driver raises DuplicateKeyError.
UpsertInsert(p) ==
    /\ pc[p] = "insert"
    /\ UNCHANGED <<todo, wallets>>
    /\ LET wallet == cur[p]
       IN  IF UniqueIndexAllows(store, wallet)
           THEN /\ BagCardinality(store) < MaxDocs
                /\ Complete(p, "inserted", InsertDoc(store, wallet), wallet, Left(p))
           ELSE \/ Complete(p, "updated",
                            ReplaceDoc(store, FirstMatch(store, wallet["wallet_address"]), wallet),
                            wallet, Left(p))
                \/ Complete(p, "error", store, wallet, Left(p))

\* The caller has taken the result; the client starts afresh.
Return(p) ==
    /\ pc[p] = "done"
    /\ pc' = [pc EXCEPT ![p] = "idle"]
    /\ kind' = [kind EXCEPT ![p] = "none"]
    /\ todo' = [todo EXCEPT ![p] = 0]
    /\ stages' = [stages EXCEPT ![p] = <<>>]
    /\ raw' = [raw EXCEPT ![p] = <<>>]
    /\ filtered' = [filtered EXCEPT ![p] = <<>>]
    /\ wallets' = [wallets EXCEPT ![p] = <<>>]
    /\ n' = [n EXCEPT ![p] = 0]
    /\ stats' = [stats EXCEPT ![p] = ZeroStats]
    /\ outcome' = [outcome EXCEPT ![p] = "none"]
    /\ result' = [result EXCEPT ![p] = FALSE]
    /\ last' = [last EXCEPT !.repeat = FALSE]
    /\ min_winrate' = [min_winrate EXCEPT ![p] = 0]
    /\ UNCHANGED <<store, now, cur, wrote, arg, ret, req, resp>>

Tick ==
    /\ now < MaxClock
    /\ now' = now + 1
    /\ UNCHANGED <<store, min_winrate, pc, kind, todo, stages, raw, filtered, wallets, cur, n, stats, outcome,
                   result, last, wrote, arg, ret, req, resp>>

\* A call of WalletModel.filter_by_winrate.
FilterByWinrate ==
    /\ arg = NoCall
    /\ \E ws \in AllLists, t \in MinWinrates :
        /\ arg' = [fn |-> "filter_by_winrate", wallets |-> ws, min_winrate |-> t, utcnow |-> now]
        /\ ret' = filter_by_winrate(ws, t)
    /\ UNCHANGED <<store, now, min_winrate, pc, kind, todo, stages, raw, filtered, wallets, cur, n, stats,
                   outcome, result, last, wrote, req, resp>>

\* A call of WalletModel.enrich_wallet_data.
EnrichWalletData ==
    /\ arg = NoCall
    /\ \E w \in AllWallets :
        /\ arg' = [fn |-> "enrich_wallet_data", wallets |-> <<w>>, min_winrate |-> 0, utcnow |-> now]
        /\ ret' = enrich_wallet_data(w, now)
    /\ UNCHANGED <<store, now, min_winrate, pc, kind, todo, stages, raw, filtered, wallets, cur, n, stats,
                   outcome, result, last, wrote, req, resp>>

\* A call of SOLWalletsScraper.enrich_wallets, the pipeline's enrich stage.
EnrichWallets ==
    /\ arg = NoCall
    /\ \E ws \in AllLists :
        /\ arg' = [fn |-> "enrich_wallets", wallets |-> ws, min_winrate |-> 0, utcnow |-> now]
        /\ ret' = enrich_wallets(ws, now)
    /\ UNCHANGED <<store, now, min_winrate, pc, kind, todo, stages, raw, filtered, wallets, cur, n, stats,
                   outcome, result, last, wrote, req, resp>>

\* The lists a caller may hand to upsert_wallets_batch: fresh wallets, and a
\* wallet that already carries a scrapeTimestamp.
BatchLists ==
    SeqsUpTo(Wallets \cup {[wallet_address |-> V("A"), winrate_7d |-> V(0),
                            scrapeTimestamp |-> V(0)]}, MaxBatch)

\* What the driver does at each wallet of a list.
Fates(wallets_) == [1..Len(wallets_) -> {"ok", "raise"}]

\* upsert_wallets_batch(wallets) on the collection, with no other writer, and
\* next to it what upsert_wallet on each wallet in turn makes of the same
\* collection, clock and driver.
UpsertBatchAndEach ==
    /\ arg.fn = "none"
    /\ \E ws \in BatchLists : \E fates \in Fates(ws) :
        LET batch == upsert_wallets_batch(store, ws, now, fates)
        IN  /\ arg' = [fn |-> "upsert_wallets_batch", wallets |-> ws, min_winrate |-> 0,
                       utcnow |-> now, store |-> store, fates |-> fates]
            /\ ret' = [stats |-> batch.stats, each |-> UpsertEach(store, ws, now, fates)]
            /\ store' = batch.store
    /\ UNCHANGED <<now, min_winrate, pc, kind, todo, stages, raw, filtered, wallets, cur, n, stats,
                   outcome, result, last, wrote, req, resp>>

\* The values a caller may pass for min_winrate, limit and the two dates.
WinrateArgs == {None} \cup {V(x) : x \in MinWinrates}

LimitArgs == {None, V(0), V(1), V(2)}

DateArgs == {None} \cup {V(t) : t \in 0..MaxClock}

\* A call of MongoClientWrapper.get_wallets: the list find delivers, or [] when
\* the read raises.
GetWallets ==
    /\ req.op = "none"
    /\ \E mw \in WinrateArgs, lim \in LimitArgs, sd \in DateArgs, ed \in DateArgs :
        /\ req' = [op |-> "get_wallets", min_winrate |-> mw, limit |-> lim,
                   start_date |-> sd, end_date |-> ed, wallet_address |-> None]
        /\ \/ \E found \in get_wallets(store, mw, lim, sd, ed) :
                resp' = [status |-> 0, wallets |-> found, failed |-> FALSE, reads |-> 1, body |-> EmptyDict]
           \/ resp' = [status |-> 0, wallets |-> <<>>, failed |-> TRUE, reads |-> 1, body |-> EmptyDict]
    /\ UNCHANGED <<store, now, min_winrate, pc, kind, todo, stages, raw, filtered, wallets,
                   cur, n, stats, outcome, result, last, wrote, arg, ret>>

\* The query parameters a client may send to GET /wallets.
HttpLimits == {None, V(-1), V(0), V(1), V(2), V(LimitMax), V(LimitMax + 1)}

HttpDates == {None, V(""), V("yesterday")} \cup {V(isoformat(t)) : t \in 0..MaxClock}

\* GET /wallets: the framework validates limit; the handler parses the dates,
\* calls get_wallets (which returns [] when the read raises) and projects
\* what it got.
HttpGetWallets ==
    /\ req.op = "none"
    /\ \E mw \in {None, V(1)}, lim \in HttpLimits, sd \in HttpDates, ed \in HttpDates :
        /\ req' = [op |-> "GET /wallets", min_winrate |-> mw, limit |-> lim,
                   start_date |-> sd, end_date |-> ed, wallet_address |-> None]
        /\ IF ~LimitAccepted(lim)
           THEN resp' = [status |-> 422, wallets |-> <<>>, failed |-> FALSE, reads |-> 0, body |-> EmptyDict]
           ELSE IF BadDate(sd) \/ BadDate(ed)
           THEN resp' = [status |-> 400, wallets |-> <<>>, failed |-> FALSE, reads |-> 0, body |-> EmptyDict]
           ELSE \/ \E found \in get_wallets(store, mw, lim, ParsedDate(sd), ParsedDate(ed)) :
                     resp' = [status |-> 200,
                              wallets |-> [i \in 1..Len(found) |-> transform_for_api(found[i])],
                              failed |-> FALSE, reads |-> 1, body |-> EmptyDict]
                \/ resp' = [status |-> 200, wallets |-> <<>>, failed |-> TRUE, reads |-> 1, body |-> EmptyDict]
    /\ UNCHANGED <<store, now, min_winrate, pc, kind, todo, stages, raw, filtered, wallets,
                   cur, n, stats, outcome, result, last, wrote, arg, ret>>

\* GET /wallets/{wallet_address}: get_wallet returns the document, or None
\* when there is none or when the read raises; the handler answers 404 on
\* None and the projected document otherwise.
HttpGetWallet ==
    /\ req.op = "none"
    /\ \E address \in {"A", "B", "C"} :
        /\ req' = [op |-> "GET /wallets/{wallet_address}", min_winrate |-> None,
                   limit |-> None, start_date |-> None, end_date |-> None,
                   wallet_address |-> V(address)]
        /\ \E failed \in BOOLEAN :
            \E wallet \in IF failed THEN {None} ELSE find_one(store, V(address)) :
                resp' = [status |-> IF NotFound(wallet) THEN 404 ELSE 200,
                         wallets |-> IF NotFound(wallet) THEN <<>>
                                     ELSE <<transform_for_api(wallet)>>,
                         failed |-> failed, reads |-> 1, body |-> EmptyDict]
    /\ UNCHANGED <<store, now, min_winrate, pc, kind, todo, stages, raw, filtered, wallets,
                   cur, n, stats, outcome, result, last, wrote, arg, ret>>

\* GET /health: the handler calls get_stats, which returns {} when a read
\* raises, and answers "healthy" with stats.get('total_wallets', 0). Its
\* "except Exception" answers 503, but nothing in its try block raises.
HttpHealth ==
    /\ req.op = "none"
    /\ req' = [NoReq EXCEPT !.op = "GET /health"]
    /\ \E failed \in BOOLEAN :
        LET got == IF failed THEN get_stats_failed ELSE get_stats(store)
        IN  resp' = [status |-> 200, wallets |-> <<>>, failed |-> failed, reads |-> 1,
                     body |-> [status |-> "healthy",
                               timestamp |-> isoformat(now),
                               mongodb |-> "connected",
                               total_wallets |-> Get(got, "total_wallets", 0)]]
    /\ UNCHANGED <<store, now, min_winrate, pc, kind, todo, stages, raw, filtered, wallets,
                   cur, n, stats, outcome, result, last, wrote, arg, ret>>

\* Two clients, one operation each, interleaved at every access to the
\* collection.
Next ==
    \/ \E p \in Procs : UpsertWallet(p)
    \/ \E p \in Procs : UpsertWalletsBatch(p)
    \/ \E p \in Procs : RunScrape(p)
    \/ \E p \in Procs : ReplaceOne(p)
    \/ \E p \in Procs : UpsertInsert(p)

Spec == Init /\ [][Next]_vars

\* One client calling the storage gateway, one call after the other, while
\* the clock advances.
NextSeq ==
    \/ UpsertWallet("p1")
    \/ UpsertWalletsBatch("p1")
    \/ ReplaceOne("p1")
    \/ UpsertInsert("p1")
    \/ Return("p1")
    \/ Tick

SpecSeq == Init /\ [][NextSeq]_vars

\* One scraper: run_scrape step by step, one run after the other, while the
\* clock advances.
NextRun ==
    \/ RunFetch("p1")
    \/ RunFilter("p1")
    \/ RunEnrich("p1")
    \/ RunStore("p1")
    \/ ReplaceOne("p1")
    \/ UpsertInsert("p1")
    \/ Return("p1")
    \/ Tick

SpecRun == Init /\ [][NextRun]_vars

\* A step of a run_scrape call that has begun: the call is one thread of
\* straight-line code, so its next step is taken.
RunStep(p) ==
    \/ RunFilter(p)
    \/ RunEnrich(p)
    \/ RunStore(p)
    \/ ReplaceOne(p)
    \/ UpsertInsert(p)

\* One scraper, one run after the other, every one of which runs on until it
\* returns (the request to the API and the writes to the collection return
\* or raise). The clock stands still: no branch of run_scrape reads it.
NextRunFair ==
    \/ RunFetch("p1")
    \/ RunStep("p1")
    \/ Return("p1")

SpecRunFair == Init /\ [][NextRunFair]_vars /\ WF_vars(RunStep("p1"))

\* One read of a collection that upserts have built, by the gateway or by a
\* handler of the server.
NextQuery ==
    \/ GetWallets
    \/ HttpGetWallets
    \/ HttpGetWallet
    \/ HttpHealth

SpecQuery == InitQuery /\ [][NextQuery]_vars

\* One batch upsert by the only writer of a collection that upserts have
\* built.
NextBatch == UpsertBatchAndEach

SpecBatch == InitQuery /\ [][NextBatch]_vars

\* One call of a record-model function, on every shape of wallet, at any time.
NextModel ==
    \/ FilterByWinrate
    \/ EnrichWalletData
    \/ EnrichWallets
    \/ Tick

SpecModel == Init /\ [][NextModel]_vars

\* ------------------------------------------------------------ properties
\* The stored documents whose wallet_address is a.
DocsAt(a) == {d \in BagToSet(store) : Has(d, "wallet_address") /\ d["wallet_address"] = a}

\* The wallet_address values some client has successfully upserted.
Upserted == UNION {DOMAIN wrote[p] : p \in Procs}

\* A wallet_address that is absent, None or empty.
InvalidAddress(w) ==
    \/ ~Has(w, "wallet_address")
    \/ w["wallet_address"] = None
    \/ w["wallet_address"] = V("")

C2_UpsertTwiceIsUpdate ==
    last.repeat =>
        /\ last.replaced # None
        /\ DocsAt(last.rec["wallet_address"]) = {last.rec}
        /\ CopiesIn(last.rec, store) = 1
        /\ outcome[last.by] = "updated"
        /\ kind[last.by] # "upsert" => stats[last.by].updated >= 1

\* upsert_wallet has been called twice in a row with the same wallet, the
\* clock having advanced since the wallet was stamped.
C2_Witness ==
    /\ last.repeat
    /\ last.rec["scrapeTimestamp"] # V(now)
    /\ kind[last.by] = "upsert"
    /\ pc[last.by] = "done"
    /\ result[last.by]

\* C3: a non-empty batch that upsert_wallets_batch finished without errors
\* has inserted + updated = len(batch).
C3_NoErrorsCountsAll ==
    \A p \in Procs :
        (pc[p] = "done" /\ kind[p] \in {"batch", "run"} /\ n[p] > 0 /\ stats[p].errors = 0)
            => stats[p].inserted + stats[p].updated = n[p]

\* A batch of two wallets finished with one insert and one update.
C3_Witness ==
    \E p \in Procs :
        /\ pc[p] = "done"
        /\ kind[p] = "batch"
        /\ n[p] = 2
        /\ stats[p] = [inserted |-> 1, updated |-> 1, errors |-> 0]

\* A client's step fails a wallet of its batch.
FailsWallet(p) ==
    /\ kind[p] \in {"batch", "run"}
    /\ pc[p] \in {"loop", "insert"}
    /\ stats'[p].errors # stats[p].errors

\* C4: in upsert_wallets_batch a failing wallet adds exactly one to errors and
\* nothing to the other counters, leaves the collection as it was, and the
\* loop goes on with the wallets that are left; every finished batch has
\* inserted + updated + errors = len(batch).
C4_FailureDoesNotAbort ==
    /\ [](\A p \in Procs :
            (pc[p] = "done" /\ kind[p] \in {"batch", "run"})
                => stats[p].inserted + stats[p].updated + stats[p].errors = n[p])
    /\ [][\A p \in Procs :
            FailsWallet(p) =>
                /\ stats'[p] = [stats[p] EXCEPT !.errors = @ + 1]
                /\ store' = store
                /\ wrote' = wrote
                /\ pc'[p] = IF Left(p) - (IF pc[p] = "loop" THEN 1 ELSE 0) > 0
                            THEN "loop" ELSE "done"]_vars

\* A batch of two wallets whose first wallet failed and whose second was
\* inserted.
C4_Witness ==
    \E p \in Procs :
        /\ pc[p] = "done"
        /\ kind[p] = "batch"
        /\ n[p] = 2
        /\ stats[p] = [inserted |-> 1, updated |-> 0, errors |-> 1]
        /\ outcome[p] = "inserted"
        /\ DOMAIN wrote[p] # {}

\* C5: filter_by_winrate keeps a wallet iff its winrate_7d is present, not
\* None and >= the threshold; a missing or None winrate is never kept.
C5_FilterKeepsOnlyPresentWinrate ==
    arg.fn = "filter_by_winrate" =>
        ret = SelectSeq(arg.wallets,
                        LAMBDA w : /\ Has(w, "winrate_7d")
                                   /\ w["winrate_7d"] # None
                                   /\ w["winrate_7d"][1] >= arg.min_winrate)

\* C6: enrich_wallet_data returns None for a wallet whose wallet_address is
\* absent, None or empty, and enrich_wallets returns exactly the other
\* wallets of its list, in order, each stamped with the time of the call.
C6_EnrichRejectsInvalidAddress ==
    /\ (arg.fn = "enrich_wallet_data" /\ InvalidAddress(arg.wallets[1])) => ret = None
    /\ arg.fn = "enrich_wallets" =>
        LET valid == SelectSeq(arg.wallets, LAMBDA w : ~InvalidAddress(w))
        IN  /\ Len(ret) = Len(valid)
            /\ \A i \in 1..Len(valid) :
                 ret[i] = Put(valid[i], "scrapeTimestamp", V(arg.utcnow))

\* enrich_wallets got an invalid wallet first and a valid one after it, and
\* returned the valid one.
C6_Witness ==
    /\ arg.fn = "enrich_wallets"
    /\ Len(arg.wallets) = 2
    /\ InvalidAddress(arg.wallets[1])
    /\ ~InvalidAddress(arg.wallets[2])
    /\ Len(ret) = 1

\* C7: no stored document lacks a wallet_address: every document in the
\* collection has the key with a value that is neither None nor empty.
C7_NoDocumentWithoutAddress ==
    \A d \in BagToSet(store) : ~InvalidAddress(d)

\* C8: after a successful upsert of a wallet whose address already had a
\* document, the document of that address is the wallet, key for key: no key
\* of the replaced document that the wallet lacks is left.
C8_ReplacedInFull ==
    last.replaced # None =>
        \A d \in DocsAt(last.rec["wallet_address"]) :
            /\ DOMAIN d = DOMAIN last.rec
            /\ \A k \in DOMAIN d : d[k] = last.rec[k]
            /\ \A k \in DOMAIN last.replaced \ DOMAIN last.rec : ~Has(d, k)

\* A document with realized_profit and an older scrapeTimestamp has been
\* replaced by a wallet without realized_profit.
C8_Witness ==
    /\ last.replaced # None
    /\ Has(last.replaced, "realized_profit")
    /\ ~Has(last.rec, "realized_profit")
    /\ last.replaced["scrapeTimestamp"] # last.rec["scrapeTimestamp"]
    /\ DocsAt(last.rec["wallet_address"]) # {}

\* C9 as claimed: the value upsert_wallet returns for an insert differs from
\* the value it returns for a replacement.
C9_ResultTellsInsertFromReplace ==
    \A p, q \in Procs :
        (/\ pc[p] = "done" /\ kind[p] = "upsert" /\ outcome[p] = "inserted"
         /\ pc[q] = "done" /\ kind[q] = "upsert" /\ outcome[q] = "updated")
            => result[p] # result[q]

\* C9 as amended: upsert_wallet returns True when it inserted or replaced a
\* document and False when it failed.
C9_ResultTellsSuccess ==
    \A p \in Procs :
        (pc[p] = "done" /\ kind[p] = "upsert")
            => (result[p] <=> outcome[p] \in {"inserted", "updated"})

\* One upsert_wallet inserted, another replaced, and both returned True.
C9_Witness ==
    \E p, q \in Procs :
        /\ pc[p] = "done" /\ kind[p] = "upsert" /\ outcome[p] = "inserted"
        /\ pc[q] = "done" /\ kind[q] = "upsert" /\ outcome[q] = "updated"
        /\ result[p] /\ result[q]

EndedWithoutStore(p) ==
    /\ pc[p] = "done"
    /\ "store" \notin {stages[p][i] : i \in 1..Len(stages[p])}
    /\ n[p] = 0
    /\ stats[p] = ZeroStats
    /\ outcome[p] = "none"
    /\ cur[p] = None

\* Client p is in a run whose fetch stage has returned no wallets.
FetchedNone(p) == kind[p] = "run" /\ Len(stages[p]) >= 1 /\ raw[p] = <<>>

\* Client p is in a run that fetched wallets of which the filter kept none.
FilteredNone(p) ==
    kind[p] = "run" /\ Len(stages[p]) >= 2 /\ raw[p] # <<>> /\ filtered[p] = <<>>

\* Client p is in a run whose filter kept wallets of which enrichment kept none.
EnrichedNone(p) ==
    /\ kind[p] = "run" /\ Len(stages[p]) >= 3 /\ filtered[p] # <<>>
    /\ IF Len(stages[p]) = 3 THEN wallets[p] = <<>> ELSE n[p] = 0

\* C11: a run whose fetch yielded no wallets (an empty reply or a failed
\* request) returns False, enters no stage after fetch, and the collection
\* stays as it was from the fetch to the return.
C11_EmptyFetchFailsTheRun ==
    /\ [](\A p \in Procs :
            FetchedNone(p) => (stages[p] = <<"fetch">> /\ ~result[p] /\ EndedWithoutStore(p)))
    /\ [][\A p \in Procs : FetchedNone(p)' => store' = store]_vars

\* A run fetched nothing while the collection held a document of an earlier
\* run.
C11_Witness ==
    /\ FetchedNone("p1")
    /\ pc["p1"] = "done"
    /\ store # EmptyBag

\* C12: a run that fetched wallets none of which passed the winrate filter
\* returns True, never enters enrich or store, and the collection stays as it
\* was.
C12_NothingPassesFilterIsSuccess ==
    /\ [](\A p \in Procs :
            FilteredNone(p) =>
                (stages[p] = <<"fetch", "filter">> /\ result[p] /\ EndedWithoutStore(p)))
    /\ [][\A p \in Procs : FilteredNone(p)' => store' = store]_vars

\* A run fetched two wallets, the filter let none through, and the collection
\* held a document of an earlier run.
C12_Witness ==
    /\ FilteredNone("p1")
    /\ Len(raw["p1"]) = 2
    /\ pc["p1"] = "done"
    /\ result["p1"]
    /\ store # EmptyBag

\* C13: a run in which wallets passed the filter but none survived enrichment
\* returns False, never enters store, and the collection stays as it was.
C13_NothingEnrichedFailsTheRun ==
    /\ [](\A p \in Procs :
            EnrichedNone(p) =>
                (stages[p] = <<"fetch", "filter", "enrich">> /\ ~result[p]
                 /\ EndedWithoutStore(p)))
    /\ [][\A p \in Procs : EnrichedNone(p)' => store' = store]_vars

\* A run whose filter let two wallets through, both rejected by enrichment.
C13_Witness ==
    /\ EnrichedNone("p1")
    /\ Len(filtered["p1"]) = 2
    /\ pc["p1"] = "done"
    /\ ~result["p1"]

\* C14: a run that went through the store stage returns True iff the stats
\* of its batch have errors = 0, whatever the inserted and updated counts;
\* the wallets it stored stay stored when it returns False.
C14_RunSucceedsIffNoErrors ==
    \A p \in Procs :
        (kind[p] = "run" /\ pc[p] = "done" /\ Len(stages[p]) = 4)
            => /\ result[p] <=> stats[p].errors = 0
               /\ stats[p].inserted + stats[p].updated + stats[p].errors = n[p]
               /\ n[p] > 0
               /\ \A a \in DOMAIN wrote[p] : DocsAt(a) = {wrote[p][a]}

\* A run stored one wallet, failed on another and returned False, the stored
\* wallet being in the collection.
C14_Witness ==
    /\ kind["p1"] = "run"
    /\ pc["p1"] = "done"
    /\ Len(stages["p1"]) = 4
    /\ stats["p1"] = [inserted |-> 1, updated |-> 0, errors |-> 1]
    /\ ~result["p1"]
    /\ BagCardinality(store) = 1

\* The elements of a list.
Range(seq) == {seq[i] : i \in 1..Len(seq)}

\* A get_wallets call has returned what find delivered.
Queried == req.op = "get_wallets" /\ ~resp.failed

\* The read was made without a limit (limit=None, or 0, which is no limit).
Unlimited == req.limit \in {None, V(0)}

\* What the filters of the read in req ask of a document, in the words of
\* the query contract.
Satisfies(d) ==
    /\ req.min_winrate # None =>
        /\ Has(d, "winrate_7d") /\ d["winrate_7d"] # None
        /\ d["winrate_7d"][1] >= req.min_winrate[1]
    /\ req.start_date # None =>
        /\ Has(d, "scrapeTimestamp") /\ d["scrapeTimestamp"] # None
        /\ d["scrapeTimestamp"][1] >= req.start_date[1]
    /\ req.end_date # None =>
        /\ Has(d, "scrapeTimestamp") /\ d["scrapeTimestamp"] # None
        /\ d["scrapeTimestamp"][1] <= req.end_date[1]

\* C15: when get_wallets(min_winrate=Y), with any dates and no limit, has
\* returned, every document that get_wallets(min_winrate=X) can return on the
\* same collection with the same dates, for any X >= Y, is in the result.
C15_QueryMonotoneInWinrate ==
    (Queried /\ Unlimited /\ req.min_winrate # None) =>
        \A X \in MinWinrates \cup {2} :
            X >= req.min_winrate[1] =>
                \A stricter \in get_wallets(store, V(X), req.limit, req.start_date, req.end_date) :
                    Range(stricter) \subseteq Range(resp.wallets)

\* get_wallets(min_winrate=0) returned two documents of which only one has a
\* winrate_7d of 1 or more.
C15_Witness ==
    /\ Queried /\ Unlimited
    /\ req.min_winrate = V(0)
    /\ Len(resp.wallets) = 2
    /\ \E stricter \in get_wallets(store, V(1), req.limit, req.start_date, req.end_date) :
         Len(stricter) = 1

\* C16: without a limit get_wallets returns each stored document that
\* satisfies all the filters given exactly once, and no other: minWinrate
\* (0 included) as winrate_7d >= minWinrate, startTime as scrapeTimestamp >=
\* startTime, endTime as scrapeTimestamp <= endTime; with no filter, every
\* document.
C16_QueryReturnsTheMatches ==
    (Queried /\ Unlimited) =>
        /\ Range(resp.wallets) = {d \in BagToSet(store) : Satisfies(d)}
        /\ Len(resp.wallets) = Cardinality(Range(resp.wallets))
        /\ (req.min_winrate = None /\ req.start_date = None /\ req.end_date = None)
              => Len(resp.wallets) = BagCardinality(store)

\* get_wallets(min_winrate=0, start_date=s, end_date=e) left out one document
\* for its winrate, one for being older than s, and returned the third.
C16_Witness ==
    /\ Queried /\ Unlimited
    /\ req.min_winrate = V(0)
    /\ req.start_date # None /\ req.end_date # None
    /\ Len(resp.wallets) = 1
    /\ \E d \in BagToSet(store) : ~Has(d, "winrate_7d")
    /\ \E d \in BagToSet(store) :
         Has(d, "winrate_7d") /\ d["scrapeTimestamp"][1] < req.start_date[1]
    /\ resp.wallets[1]["scrapeTimestamp"] = req.end_date

\* C17: the list get_wallets returns is in descending order of
\* scrapeTimestamp; with limit = n >= 1 it has min(n, number of matches)
\* documents, and no matching document left out is more recent than one
\* returned.
C17_QuerySortedAndCapped ==
    Queried =>
        /\ \A i, j \in 1..Len(resp.wallets) :
             i < j => resp.wallets[i]["scrapeTimestamp"][1] >= resp.wallets[j]["scrapeTimestamp"][1]
        /\ Range(resp.wallets) \subseteq {d \in BagToSet(store) : Satisfies(d)}
        /\ ~Unlimited =>
             LET matches == {d \in BagToSet(store) : Satisfies(d)}
                 limit == req.limit[1]
             IN  /\ Len(resp.wallets) = IF limit < Cardinality(matches)
                                        THEN limit ELSE Cardinality(matches)
                 /\ Cardinality(Range(resp.wallets)) = Len(resp.wallets)
                 /\ \A out \in matches \ Range(resp.wallets), d \in Range(resp.wallets) :
                      out["scrapeTimestamp"][1] <= d["scrapeTimestamp"][1]

\* get_wallets(limit=2) on three documents of three different times returned
\* the two most recent, the most recent first.
C17_Witness ==
    /\ Queried
    /\ req.limit = V(2)
    /\ BagCardinality(store) = 3
    /\ Len(resp.wallets) = 2
    /\ resp.wallets[1]["scrapeTimestamp"][1] > resp.wallets[2]["scrapeTimestamp"][1]
    /\ \E d \in BagToSet(store) :
         d["scrapeTimestamp"][1] < resp.wallets[2]["scrapeTimestamp"][1]

\* C18: a GET /wallets request whose limit is outside [1, 1000] is answered
\* with a client error (4xx) and no read of the collection is made for it.
C18_BadLimitIsClientError ==
    (/\ req.op = "GET /wallets"
     /\ req.limit # None
     /\ (req.limit[1] < 1 \/ req.limit[1] > 1000))
        => /\ resp.status \in 400..499
           /\ resp.reads = 0
           /\ resp.wallets = <<>>

\* GET /wallets?limit=1001 on a collection with documents got a client error
\* and nothing was read.
C18_Witness ==
    /\ req.op = "GET /wallets"
    /\ req.limit = V(1001)
    /\ store # EmptyBag
    /\ resp.status = 422
    /\ resp.reads = 0

\* C19: GET /wallets/{wallet_address} for an address with no stored document
\* is answered 404, never 500; for an address with a document, when the read
\* succeeds, it is answered with that document projected for the API.
C19_UnknownWalletIsNotFound ==
    req.op = "GET /wallets/{wallet_address}" =>
        /\ resp.status # 500
        /\ DocsAt(req.wallet_address) = {} => (resp.status = 404 /\ resp.wallets = <<>>)
        /\ (DocsAt(req.wallet_address) # {} /\ ~resp.failed) =>
              /\ resp.status = 200
              /\ \E d \in DocsAt(req.wallet_address) : resp.wallets = <<transform_for_api(d)>>

\* An address never stored was asked for on a collection that holds another
\* address, and the answer was 404.
C19_Witness ==
    /\ req.op = "GET /wallets/{wallet_address}"
    /\ req.wallet_address = V("C")
    /\ DocsAt(V("A")) # {}
    /\ resp.status = 404

\* An address with a document was asked for and the projected document came
\* back.
C19_WitnessFound ==
    /\ req.op = "GET /wallets/{wallet_address}"
    /\ req.wallet_address = V("B")
    /\ resp.status = 200
    /\ Len(resp.wallets) = 1
    /\ resp.wallets[1].winrate_7d = V(0)

\* C20: when the read of the collection fails while GET /wallets is served,
\* the answer is a 500, not a success with an empty list.
C20_StorageFailureIsServerError ==
    (req.op = "GET /wallets" /\ resp.failed) => resp.status = 500

\* C21: when the reads of the collection fail while GET /health is served,
\* the answer is a 503, not "healthy" with total_wallets 0.
C21_HealthFailureIsUnavailable ==
    (req.op = "GET /health" /\ resp.failed) =>
        /\ resp.status = 503
        /\ ~(Has(resp.body, "status") /\ resp.body["status"] = "healthy")

\* The wallet_address values the wallets here have.
Addresses == {w["wallet_address"] : w \in {x \in Wallets : Has(x, "wallet_address")}}

\* C22: pipeline runs executed one after the other on a clock that does not go
\* back never lower the scrapeTimestamp of an address's stored document: at
\* every step the documents of an address are stamped no earlier than the
\* ones they replace.
C22_StampNeverDecreases ==
    [][\A a \in Addresses :
          \A d \in DocsAt(a) : \A e \in DocsAt(a)' : SortKey(d) <= SortKey(e)]_vars

\* A later run has replaced the document of an address by one stamped later.
C22_Witness ==
    /\ kind["p1"] = "run"
    /\ outcome["p1"] = "updated"
    /\ last.replaced # None
    /\ last.replaced["scrapeTimestamp"][1] < last.rec["scrapeTimestamp"][1]
    /\ last.rec \in BagToSet(store)

\* C23: no step of upsert_wallet, upsert_wallets_batch, run_scrape or a read
\* deletes a record: an address that has a stored document still has one
\* after every step, whether the step's write succeeded or failed.
C23_NeverDeleted ==
    [][\A d \in BagToSet(store) :
          \E e \in BagToSet(store') : e["wallet_address"] = d["wallet_address"]]_vars

\* One client has replaced the document of an address, the other's write has
\* failed, and the address has its document.
C23_Witness ==
    /\ \E p, q \in Procs : outcome[p] = "updated" /\ outcome[q] = "error"
    /\ last.replaced # None
    /\ last.replaced # last.rec
    /\ DocsAt(last.rec["wallet_address"]) = {last.rec}

\* C24: with no other writer, upsert_wallets_batch(wallets) does what
\* upsert_wallet does when called on each wallet in list order: it leaves the
\* same collection behind, and its errors counter is the number of those
\* calls that return False (inserted + updated the number that return True).
C24_BatchIsEachUpsert ==
    arg.fn = "upsert_wallets_batch" =>
        /\ store = ret.each.store
        /\ ret.stats.errors = ret.each.failed
        /\ ret.stats.inserted + ret.stats.updated = Len(arg.wallets) - ret.each.failed

\* A batch whose first wallet failed and whose second was written: one error,
\* and the collection has changed.
C24_Witness ==
    /\ arg.fn = "upsert_wallets_batch"
    /\ Len(arg.wallets) = 2
    /\ arg.fates[1] = "raise"
    /\ arg.fates[2] = "ok"
    /\ ret.stats.errors = 1
    /\ ret.each.failed = 1
    /\ store # arg.store

\* The stages of run_scrape in the order of its code.
Pipeline == <<"fetch", "filter", "enrich", "store">>

\* C25: in a run_scrape call the stages run in the order fetch, filter,
\* enrich, store, each at most once and none again; a stage runs only when
\* every stage before it returned a non-empty list; and every call returns,
\* with True or False.
C25_StagesInOrderOnceAndReturns ==
    /\ [](\A p \in Procs :
            /\ Len(stages[p]) <= Len(Pipeline)
            /\ stages[p] = SubSeq(Pipeline, 1, Len(stages[p]))
            /\ Len(stages[p]) >= 2 => raw[p] # <<>>
            /\ Len(stages[p]) >= 3 => filtered[p] # <<>>
            /\ Len(stages[p]) >= 4 => n[p] > 0
            /\ result[p] \in BOOLEAN)
    /\ [][\A p \in Procs :
            \/ stages[p]' = stages[p]
            \/ /\ Len(stages[p]) < Len(Pipeline)
               /\ stages[p]' = Append(stages[p], Pipeline[Len(stages[p]) + 1])
            \/ pc[p] = "done" /\ stages[p]' = <<>>]_vars
    /\ \A p \in Procs : (pc[p] # "idle") ~> (pc[p] = "done")

\* A run went through its four stages and returned after writing.
C25_Witness ==
    /\ pc["p1"] = "done"
    /\ stages["p1"] = Pipeline
    /\ stats["p1"].inserted + stats["p1"].updated + stats["p1"].errors = n["p1"]
    /\ n["p1"] = MaxBatch

\* The run of client p has just written the document last.rec.
RunWrote(p) ==
    /\ kind[p] = "run"
    /\ outcome[p] \in {"inserted", "updated"}
    /\ last.by = p

\* C26: every document a run_scrape call writes is a record fetched by that
\* call whose winrate_7d is at least the configured min_winrate and whose
\* wallet_address is not empty, with a scrapeTimestamp added; the fetched
\* records that fail the filter or the validation are not written.
C26_RunWritesOnlyQualifying ==
    \A p \in Procs :
        RunWrote(p) =>
            /\ Has(last.rec, "scrapeTimestamp")
            /\ last.rec["scrapeTimestamp"] # None
            /\ \E i \in 1..Len(raw[p]) :
                 /\ Has(raw[p][i], "winrate_7d")
                 /\ raw[p][i]["winrate_7d"] # None
                 /\ raw[p][i]["winrate_7d"][1] >= min_winrate[p]
                 /\ ~InvalidAddress(raw[p][i])
                 /\ last.rec = Put(raw[p][i], "scrapeTimestamp", last.rec["scrapeTimestamp"])

\* C27: an upsert_wallets_batch call with no other writer that reports no
\* error has inserted as many wallets as its list has distinct
\* wallet_address values that had no document before the call (an address
\* that comes twice is inserted once and updated afterwards), and the
\* collection has grown by exactly that many documents.
C27_InsertedCountsNewAddresses ==
    (arg.fn = "upsert_wallets_batch" /\ ret.stats.errors = 0) =>
        LET before == {d["wallet_address"] : d \in BagToSet(arg.store)}
            given == {w["wallet_address"] : w \in Range(arg.wallets)}
        IN  /\ ret.stats.inserted = Cardinality(given \ before)
            /\ ret.stats.updated = Len(arg.wallets) - ret.stats.inserted
            /\ BagCardinality(store) = BagCardinality(arg.store) + ret.stats.inserted

\* A batch gave twice an address that had no document, on a collection with
\* another address: one insert, one update, one document more.
C27_Witness ==
    /\ arg.fn = "upsert_wallets_batch"
    /\ Len(arg.wallets) = 2
    /\ ret.stats = [inserted |-> 1, updated |-> 1, errors |-> 0]
    /\ arg.wallets[1]["wallet_address"] = V("A")
    /\ arg.wallets[2]["wallet_address"] = V("A")
    /\ arg.wallets[1] # arg.wallets[2]
    /\ BagCardinality(arg.store) = 1
    /\ BagCardinality(store) = 2

====
